---- MODULE Spec2Model ----
(***************************************************************************)
(* Model of server/server.js: the proxy endpoints (top-coins, market-data, *)
(* coin-info, coin-holders), the credential resolver getAuthHeaders, the   *)
(* generic upstream client handleApiRequest and the /api/graph render      *)
(* orchestrator.                                                           *)
(*                                                                         *)
(* Strings are sequences of tokens.  A token is either a single character  *)
(* ("1", "?", " ", ...) or a word: an indivisible run of letters/digits    *)
(* that is always written the same way ("undefined", "search", "BTC").     *)
(* JavaScript values are tagged records (Undefined, NaN, Str(s), Num(n)).  *)
(***************************************************************************)
EXTENDS Integers, Sequences, FiniteSets, TLC

\* ------------------------------------------------------------------------
\* JavaScript values and the conversions the source applies to them
\* ------------------------------------------------------------------------

Undefined == [t |-> "undefined"]
NaN == [t |-> "NaN"]
Str(s) == [t |-> "string", s |-> s]
Num(n) == [t |-> "number", n |-> n]

\* ToBoolean: undefined, NaN, 0 and the empty string are falsy.
Truthy(v) ==
    CASE v.t = "undefined" -> FALSE
      [] v.t = "NaN" -> FALSE
      [] v.t = "string" -> v.s # <<>>
      [] v.t = "number" -> v.n # 0
      [] v.t = "null" -> FALSE

\* a || b
Or(a, b) == IF Truthy(a) THEN a ELSE b

DecDigits == <<"0", "1", "2", "3", "4", "5", "6", "7", "8", "9">>
HexDigits ==
    <<"0", "1", "2", "3", "4", "5", "6", "7", "8", "9",
      "a", "b", "c", "d", "e", "f">>
HexDigitsUpper ==
    <<"0", "1", "2", "3", "4", "5", "6", "7", "8", "9",
      "A", "B", "C", "D", "E", "F">>

IsDigit(c, radix) ==
    \E k \in 1..radix : HexDigits[k] = c \/ HexDigitsUpper[k] = c

DigitVal(c) ==
    (CHOOSE k \in 1..16 : HexDigits[k] = c \/ HexDigitsUpper[k] = c) - 1

RECURSIVE NatToStr(_)
NatToStr(n) ==
    IF n < 10 THEN <<DecDigits[n + 1]>>
    ELSE NatToStr(n \div 10) \o <<DecDigits[(n % 10) + 1]>>

\* Number.prototype.toString for integers
NumToStr(n) == IF n < 0 THEN <<"-">> \o NatToStr(0 - n) ELSE NatToStr(n)

\* ToString (ECMAScript), as used by template literals, parseInt and URLSearchParams
JsToString(v) ==
    CASE v.t = "undefined" -> <<"undefined">>
      [] v.t = "NaN" -> <<"NaN">>
      [] v.t = "string" -> v.s
      [] v.t = "number" -> NumToStr(v.n)

RECURSIVE SkipSpaces(_)
SkipSpaces(s) ==
    IF s # <<>> /\ Head(s) = " " THEN SkipSpaces(Tail(s)) ELSE s

\* The value of the longest prefix of s made of digits of the radix;
\* acc is the value read so far, any says whether a digit was read.
RECURSIVE ReadDigits(_, _, _, _)
ReadDigits(s, radix, acc, any) ==
    IF s # <<>> /\ IsDigit(Head(s), radix)
    THEN ReadDigits(Tail(s), radix, acc * radix + DigitVal(Head(s)), TRUE)
    ELSE [any |-> any, n |-> acc]

\* parseInt(v) with no radix argument: leading white space is skipped, a
\* sign is read, "0x"/"0X" selects radix 16, then the longest digit prefix
\* is read; NaN when there is none.
parseInt(v) ==
    LET s0 == SkipSpaces(JsToString(v))
        neg == s0 # <<>> /\ Head(s0) = "-"
        s1 == IF s0 # <<>> /\ Head(s0) \in {"-", "+"} THEN Tail(s0) ELSE s0
        hex == Len(s1) >= 2 /\ s1[1] = "0" /\ s1[2] \in {"x", "X"}
        s2 == IF hex THEN Tail(Tail(s1)) ELSE s1
        r == ReadDigits(s2, IF hex THEN 16 ELSE 10, 0, FALSE)
    IN  IF ~r.any THEN NaN
        ELSE Num(IF neg THEN 0 - r.n ELSE r.n)

\* ------------------------------------------------------------------------
\* URLSearchParams and URL, as used by the route handlers
\* ------------------------------------------------------------------------

\* application/x-www-form-urlencoded byte serializer, one token: letters,
\* digits, "*", "-", "." and "_" are kept, a space becomes "+", any other
\* character becomes its %XX escape.  Words are runs of letters and digits.
FormEncodeTok(c) ==
    CASE c = " " -> <<"+">>
      [] c = "+" -> <<"%", "2", "B">>
      [] c = "&" -> <<"%", "2", "6">>
      [] c = "=" -> <<"%", "3", "D">>
      [] c = "%" -> <<"%", "2", "5">>
      [] c = "?" -> <<"%", "3", "F">>
      [] c = "#" -> <<"%", "2", "3">>
      [] c = "/" -> <<"%", "2", "F">>
      [] c = "\\" -> <<"%", "5", "C">>
      [] c = "," -> <<"%", "2", "C">>
      [] OTHER -> <<c>>

RECURSIVE FormEncode(_)
FormEncode(s) ==
    IF s = <<>> THEN <<>> ELSE FormEncodeTok(Head(s)) \o FormEncode(Tail(s))

\* new URLSearchParams(obj): one entry per own property of obj, in property
\* order, every value converted with ToString (undefined becomes the text
\* "undefined").  obj is a sequence of <<name, value>> pairs.
URLSearchParams(obj) ==
    [k \in 1..Len(obj) |-> <<obj[k][1], JsToString(obj[k][2])>>]

\* URLSearchParams.prototype.toString: name=value pairs joined by "&"
RECURSIVE SearchParamsToString(_)
SearchParamsToString(list) ==
    IF list = <<>> THEN <<>>
    ELSE LET pair == FormEncode(<<Head(list)[1]>>) \o <<"=">>
                       \o FormEncode(Head(list)[2])
         IN  IF Len(list) = 1 THEN pair
             ELSE pair \o <<"&">> \o SearchParamsToString(Tail(list))

\* Index of the first token of s that is in set cs, or Len(s) + 1
RECURSIVE FirstOf(_, _, _)
FirstOf(s, cs, k) ==
    IF k > Len(s) \/ s[k] \in cs THEN k ELSE FirstOf(s, cs, k + 1)

\* URL path percent-encode set, restricted to the model's alphabet
PathEncodeTok(c) == IF c = " " THEN <<"%", "2", "0">> ELSE <<c>>

IsSingleDot(b) ==
    b \in {<<".">>, <<"%", "2", "e">>, <<"%", "2", "E">>}

IsDoubleDot(b) ==
    \E x, y \in {<<".">>, <<"%", "2", "e">>, <<"%", "2", "E">>} : b = x \o y

\* The URL standard's path state for a special scheme: "/" and "\" end a
\* segment, a ".." segment removes the segment before it, a "." segment is
\* dropped.  k is the position in s, path the segments so far, buf the
\* current segment.
RECURSIVE PathState(_, _, _, _)
PathState(s, k, path, buf) ==
    LET atEnd == k > Len(s)
        slash == ~atEnd /\ s[k] \in {"/", "\\"}
        shortened == IF path = <<>> THEN <<>> ELSE SubSeq(path, 1, Len(path) - 1)
        path2 ==
            IF IsDoubleDot(buf)
            THEN IF slash THEN shortened ELSE Append(shortened, <<>>)
            ELSE IF IsSingleDot(buf)
                 THEN IF slash THEN path ELSE Append(path, <<>>)
                 ELSE Append(path, buf)
    IN  IF atEnd THEN path2
        ELSE IF slash THEN PathState(s, k + 1, path2, <<>>)
        ELSE PathState(s, k + 1, path, buf \o PathEncodeTok(s[k]))

RECURSIVE FragmentEncode(_)
FragmentEncode(s) ==
    IF s = <<>> THEN <<>> ELSE PathEncodeTok(Head(s)) \o FragmentEncode(Tail(s))

\* Trailing spaces of the input are stripped by the URL parser.
RECURSIVE TrimRight(_)
TrimRight(s) ==
    IF s # <<>> /\ s[Len(s)] = " " THEN TrimRight(SubSeq(s, 1, Len(s) - 1)) ELSE s

\* new URL("https://rugplay.com/" + input): the host is fixed by the source,
\* the input is split at the first "#" (fragment) and the first "?" before it
\* (query); the path is normalised by PathState.
URL(input) ==
    LET rest == TrimRight(input)
        h == FirstOf(rest, {"#"}, 1)
        beforeHash == SubSeq(rest, 1, h - 1)
        q == FirstOf(beforeHash, {"?"}, 1)
    IN  [origin |-> "https://rugplay.com",
         path |-> PathState(SubSeq(beforeHash, 1, q - 1), 1, <<>>, <<>>),
         search |-> FragmentEncode(SubSeq(beforeHash, q + 1, Len(beforeHash))),
         hash |-> FragmentEncode(SubSeq(rest, h + 1, Len(rest)))]

\* url.search = text (the text is never empty here: every params object of
\* the source has at least one property)
SetSearch(url, text) == [url EXCEPT !.search = text]

\* ------------------------------------------------------------------------
\* JSON.parse / response.json()
\* ------------------------------------------------------------------------

\* A JSON text is a token sequence over "[", "]", "{", "}", ":", ",", "-",
\* the digits, " " (white space), the literal words and string tokens (a
\* whole quoted string is one token).  The parsed value is represented by
\* its canonical text: the tokens of JSON.stringify(JSON.parse(text)).
JsonLiterals == {"null", "true", "false"}
JsonStrings == {"\"a\"", "\"b\""}

ParseFail == [ok |-> FALSE, val |-> <<>>, next |-> 0]

RECURSIVE JsonSkipWs(_, _)
JsonSkipWs(s, k) ==
    IF k <= Len(s) /\ s[k] = " " THEN JsonSkipWs(s, k + 1) ELSE k

RECURSIVE JsonDigitsEnd(_, _)
JsonDigitsEnd(s, k) ==
    IF k <= Len(s) /\ IsDigit(s[k], 10) THEN JsonDigitsEnd(s, k + 1) ELSE k

\* number: "-"? ("0" | [1-9][0-9]*); -0 is printed back as 0
JsonNumber(s, k) ==
    LET neg == s[k] = "-"
        d == IF neg THEN k + 1 ELSE k
        e == JsonDigitsEnd(s, d)
        digits == SubSeq(s, d, e - 1)
    IN  IF e = d THEN ParseFail
        ELSE IF s[d] = "0" /\ e > d + 1 THEN ParseFail
        ELSE [ok |-> TRUE,
              val |-> IF neg /\ digits # <<"0">> THEN <<"-">> \o digits ELSE digits,
              next |-> e]

\* An object's members keep the position of a key's first occurrence and the
\* value of its last one.
RECURSIVE PutMember(_, _, _)
PutMember(members, key, val) ==
    IF members = <<>> THEN <<<<key, val>>>>
    ELSE IF Head(members)[1] = key THEN <<<<key, val>>>> \o Tail(members)
    ELSE <<Head(members)>> \o PutMember(Tail(members), key, val)

RECURSIVE MembersText(_)
MembersText(members) ==
    IF members = <<>> THEN <<>>
    ELSE LET m == <<Head(members)[1], ":">> \o Head(members)[2]
         IN  IF Len(members) = 1 THEN m
             ELSE m \o <<",">> \o MembersText(Tail(members))

RECURSIVE JsonValue(_, _), JsonElements(_, _, _), JsonMembers(_, _, _)
JsonValue(s, k0) ==
    LET k == JsonSkipWs(s, k0)
    IN  IF k > Len(s) THEN ParseFail
        ELSE IF s[k] \in JsonLiterals \cup JsonStrings
             THEN [ok |-> TRUE, val |-> <<s[k]>>, next |-> k + 1]
        ELSE IF s[k] = "-" \/ IsDigit(s[k], 10) THEN JsonNumber(s, k)
        ELSE IF s[k] = "["
             THEN LET j == JsonSkipWs(s, k + 1)
                  IN  IF j <= Len(s) /\ s[j] = "]"
                      THEN [ok |-> TRUE, val |-> <<"[", "]">>, next |-> j + 1]
                      ELSE JsonElements(s, j, <<"[">>)
        ELSE IF s[k] = "{"
             THEN LET j == JsonSkipWs(s, k + 1)
                  IN  IF j <= Len(s) /\ s[j] = "}"
                      THEN [ok |-> TRUE, val |-> <<"{", "}">>, next |-> j + 1]
                      ELSE JsonMembers(s, j, <<>>)
        ELSE ParseFail

\* elements after "[" or ","; acc is the canonical text so far
JsonElements(s, k, acc) ==
    LET v == JsonValue(s, k)
        j == JsonSkipWs(s, v.next)
    IN  IF ~v.ok \/ j > Len(s) THEN ParseFail
        ELSE IF s[j] = "]"
             THEN [ok |-> TRUE, val |-> acc \o v.val \o <<"]">>, next |-> j + 1]
        ELSE IF s[j] = ","
             THEN JsonElements(s, j + 1, acc \o v.val \o <<",">>)
        ELSE ParseFail

\* members after "{" or ","; acc is the member list so far
JsonMembers(s, k0, acc) ==
    LET k == JsonSkipWs(s, k0)
        c == JsonSkipWs(s, k + 1)
        v == JsonValue(s, c + 1)
        j == JsonSkipWs(s, v.next)
        acc2 == PutMember(acc, s[k], v.val)
    IN  IF k > Len(s) \/ s[k] \notin JsonStrings THEN ParseFail
        ELSE IF c > Len(s) \/ s[c] # ":" THEN ParseFail
        ELSE IF ~v.ok \/ j > Len(s) THEN ParseFail
        ELSE IF s[j] = "}"
             THEN [ok |-> TRUE,
                   val |-> <<"{">> \o MembersText(acc2) \o <<"}">>,
                   next |-> j + 1]
        ELSE IF s[j] = "," THEN JsonMembers(s, j + 1, acc2)
        ELSE ParseFail

\* JSON.parse(text): ok is FALSE where JSON.parse throws a SyntaxError
JSONparse(text) ==
    LET v == JsonValue(text, 1)
    IN  IF v.ok /\ JsonSkipWs(text, v.next) > Len(text)
        THEN [ok |-> TRUE, val |-> v.val]
        ELSE [ok |-> FALSE, val |-> <<>>]

\* ------------------------------------------------------------------------
\* State
\* ------------------------------------------------------------------------

\* Number of requests the server receives
MaxReqs == 2
\* Number of stdout chunks one rendering subprocess writes
MaxChunks == 2

Ids == 1..MaxReqs

VARIABLES
    runMode,        \* const runMode (line 11)
    API_KEY,        \* let API_KEY (lines 13-20)
    req,            \* req of each request: route, query, body
    pc,             \* where the handling of each request stands
    outbound,       \* the fetch calls issued for each request
    upstream,       \* the upstream response the request's fetch resolved to
    sent,           \* the responses written to res, in order
    log,            \* console.log / console.error entries of each request
    proc,           \* the rendering subprocess of each request
    pythonOutput    \* let pythonOutput of each /api/graph request

vars == <<runMode, API_KEY, req, pc, outbound, upstream, sent, log, proc,
          pythonOutput>>

LOCAL_MODE == Str(<<"local">>)

QueryNames ==
    {"apikey", "search", "sortBy", "sortOrder", "priceFilter", "changeFilter",
     "page", "limit", "symbol", "timeframe"}

\* req.query: a parameter the caller did not send reads as undefined
Query(given) ==
    [n \in QueryNames |-> IF n \in DOMAIN given THEN given[n] ELSE Undefined]

NoReq == [route |-> "none", query |-> Query(<<>>), body |-> <<>>]
\* No response yet: read tells how reading the upstream response ended
NoUpstream == [status |-> 0, body |-> <<>>, read |-> "none"]
NoProc == [spawned |-> FALSE]

\* process.env.RUN_MODE || 'local'; API_KEY is assigned in local mode only
Init ==
    /\ \E RUN_MODE \in {Undefined, Str(<<>>), LOCAL_MODE, Str(<<"deployed">>)} :
          runMode = Or(RUN_MODE, LOCAL_MODE)
    /\ \E RUGPLAY_API_KEY \in {Undefined, Str(<<"secret">>)} :
          API_KEY = IF runMode = LOCAL_MODE THEN RUGPLAY_API_KEY ELSE Undefined
    /\ req = [i \in Ids |-> NoReq]
    /\ pc = [i \in Ids |-> "idle"]
    /\ outbound = [i \in Ids |-> <<>>]
    /\ upstream = [i \in Ids |-> NoUpstream]
    /\ sent = [i \in Ids |-> <<>>]
    /\ log = [i \in Ids |-> <<>>]
    /\ proc = [i \in Ids |-> NoProc]
    /\ pythonOutput = [i \in Ids |-> <<>>]

\* The server process runs until an 'error' event is emitted on an emitter
\* that has no 'error' listener: the source registers none on pythonProcess
\* (lines 158-186) and no process-level handler, so that event ends the
\* process.
Alive == \A j \in Ids : pc[j] # "crashed"

\* ------------------------------------------------------------------------
\* Helper functions of the source
\* ------------------------------------------------------------------------

\* The headers added when runMode !== 'local' (lines 54-62)
BrowserHeaders ==
    [n \in {"User-Agent", "Accept", "Accept-Language", "Accept-Encoding",
            "Connection", "Pragma", "Cache-Control"} |->
        CASE n = "User-Agent" -> <<"Mozilla/5.0 (Windows NT 10.0; Win64; x64) AppleWebKit/537.36 (KHTML, like Gecko) Chrome/58.0.3029.110 Safari/537.3">>
          [] n = "Accept" -> <<"application/json, text/plain, */*">>
          [] n = "Accept-Language" -> <<"en-US,en;q=0.9">>
          [] n = "Accept-Encoding" -> <<"gzip, deflate, br">>
          [] n = "Connection" -> <<"keep-alive">>
          [] n = "Pragma" -> <<"no-cache">>
          [] n = "Cache-Control" -> <<"no-cache">>]

\* Mutant of getAuthHeaders: the token is req.query.apikey in every run mode
getAuthHeadersFromQuery(r) ==
    LET headers ==
            [n \in {"Authorization", "Content-Type"} |->
                IF n = "Authorization"
                THEN <<"Bearer", " ">> \o JsToString(r.query["apikey"])
                ELSE <<"application/json">>]
    IN  IF runMode # LOCAL_MODE THEN headers @@ BrowserHeaders ELSE headers

\* Mutant of getAuthHeaders: the browser headers are attached in every run
\* mode
getAuthHeadersAlwaysBrowser(r) ==
    LET authToken == IF runMode = LOCAL_MODE THEN API_KEY ELSE r.query["apikey"]
        headers ==
            [n \in {"Authorization", "Content-Type"} |->
                IF n = "Authorization"
                THEN <<"Bearer", " ">> \o JsToString(authToken)
                ELSE <<"application/json">>]
    IN  headers @@ BrowserHeaders

\* function getAuthHeaders(req)
getAuthHeaders(r) ==
    LET authToken == IF runMode = LOCAL_MODE THEN API_KEY ELSE r.query["apikey"]
        headers ==
            [n \in {"Authorization", "Content-Type"} |->
                IF n = "Authorization"
                THEN <<"Bearer", " ">> \o JsToString(authToken)
                ELSE <<"application/json">>]
    IN  IF runMode # LOCAL_MODE THEN headers @@ BrowserHeaders ELSE headers

\* res.status(status).json(body) / res.json(body) (status 200)
Respond(i, status, body) ==
    sent' = [sent EXCEPT ![i] = Append(@, [status |-> status, body |-> body])]

\* console.log / console.error: an entry holds its level, its fixed text and
\* how many responses res had sent when the line was written
LogEntry(i, level, msg) == [level |-> level, msg |-> msg, sent |-> Len(sent[i])]

Log(i, level, msg) ==
    log' = [log EXCEPT ![i] = Append(@, LogEntry(i, level, msg))]

\* response.ok of node-fetch
Ok(status) == status >= 200 /\ status <= 299

\* Mutant of handleApiRequest: a request without a token is answered 401
\* without an outbound call
handleApiRequestRequireToken(i, url, r, before) ==
    IF (IF runMode = LOCAL_MODE THEN API_KEY ELSE r.query["apikey"]) = Undefined
    THEN /\ log' = [log EXCEPT ![i] = @ \o before]
         /\ sent' = [sent EXCEPT ![i] =
               Append(@, [status |-> 401, body |-> [error |-> "Missing API key."]])]
         /\ pc' = [pc EXCEPT ![i] = "done"]
         /\ UNCHANGED <<upstream, outbound>>
    ELSE /\ log' = [log EXCEPT ![i] =
               @ \o before \o <<LogEntry(i, "log", "Fetching from URL:")>>]
         /\ outbound' = [outbound EXCEPT ![i] =
               Append(@, [url |-> url, method |-> "GET",
                          headers |-> getAuthHeaders(r)])]
         /\ pc' = [pc EXCEPT ![i] = "await fetch"]
         /\ UNCHANGED <<upstream, sent>>

\* Mutant of handleApiRequest: a successful response to an identical earlier
\* request is served again without an outbound call
handleApiRequestCached(i, url, r, before) ==
    LET hits == {j \in Ids : /\ j # i
                             /\ req[j] = r
                             /\ pc[j] = "done"
                             /\ Ok(upstream[j].status)
                             /\ Len(sent[j]) = 1
                             /\ sent[j][1].status = 200}
    IN  IF hits # {}
        THEN LET j == CHOOSE h \in hits : TRUE
             IN  /\ log' = [log EXCEPT ![i] = @ \o before]
                 /\ sent' = [sent EXCEPT ![i] = sent[j]]
                 /\ upstream' = [upstream EXCEPT ![i] = upstream[j]]
                 /\ pc' = [pc EXCEPT ![i] = "done"]
                 /\ UNCHANGED outbound
        ELSE /\ log' = [log EXCEPT ![i] =
                   @ \o before \o <<LogEntry(i, "log", "Fetching from URL:")>>]
             /\ outbound' = [outbound EXCEPT ![i] =
                   Append(@, [url |-> url, method |-> "GET",
                              headers |-> getAuthHeaders(r)])]
             /\ pc' = [pc EXCEPT ![i] = "await fetch"]
             /\ UNCHANGED <<upstream, sent>>

\* handleApiRequest(url, req, res) up to its first await: the log line, the
\* headers and the outbound GET.  before holds the log entries the route
\* handler made before the call.
handleApiRequest(i, url, r, before) ==
    /\ log' = [log EXCEPT ![i] =
          @ \o before \o <<LogEntry(i, "log", "Fetching from URL:")>>]
    /\ outbound' = [outbound EXCEPT ![i] =
          Append(@, [url |-> url, method |-> "GET", headers |-> getAuthHeaders(r)])]
    /\ pc' = [pc EXCEPT ![i] = "await fetch"]
    /\ UNCHANGED <<upstream, sent>>

\* fetch resolved with a response (lines 79-81, 90): the next await is
\* response.text() for a non-success status, response.json() otherwise
FetchResolve(i, status, body) ==
    /\ Alive
    /\ pc[i] = "await fetch"
    /\ upstream' = [upstream EXCEPT ![i] =
          [status |-> status, body |-> body, read |-> "pending"]]
    /\ Log(i, "log", "External API response status:")
    /\ pc' = [pc EXCEPT ![i] = IF Ok(status) THEN "await json" ELSE "await text"]
    /\ UNCHANGED <<runMode, API_KEY, req, outbound, sent, proc, pythonOutput>>

\* Mutant of Catch: the error envelope carries the upstream body
CatchWithDetails(i) ==
    /\ Log(i, "error", "Error fetching data:")
    /\ Respond(i, 500, [error |-> "Internal server error.",
                        details |-> upstream[i].body])
    /\ pc' = [pc EXCEPT ![i] = "done"]
    /\ UNCHANGED <<runMode, API_KEY, req, outbound, proc, pythonOutput>>

\* Mutant of Catch: the response is sent first, the failure logged after it
CatchRespondFirst(i) ==
    /\ Respond(i, 500, [error |-> "Internal server error."])
    /\ log' = [log EXCEPT ![i] =
          Append(@, [level |-> "error", msg |-> "Error fetching data:",
                     sent |-> Len(sent[i]) + 1])]
    /\ pc' = [pc EXCEPT ![i] = "done"]
    /\ UNCHANGED <<runMode, API_KEY, req, outbound, proc, pythonOutput>>

\* Mutant of Catch: a first failure issues the outbound call again
CatchRetry(i) ==
    IF Len(outbound[i]) < 2
    THEN /\ Log(i, "error", "Error fetching data:")
         /\ outbound' = [outbound EXCEPT ![i] = Append(@, @[1])]
         /\ pc' = [pc EXCEPT ![i] = "await fetch"]
         /\ UNCHANGED <<runMode, API_KEY, req, sent, proc, pythonOutput>>
    ELSE /\ Log(i, "error", "Error fetching data:")
         /\ Respond(i, 500, [error |-> "Internal server error."])
         /\ pc' = [pc EXCEPT ![i] = "done"]
         /\ UNCHANGED <<runMode, API_KEY, req, outbound, proc, pythonOutput>>

\* the catch block (lines 93-96)
Catch(i) ==
    /\ Log(i, "error", "Error fetching data:")
    /\ Respond(i, 500, [error |-> "Internal server error."])
    /\ pc' = [pc EXCEPT ![i] = "done"]
    /\ UNCHANGED <<runMode, API_KEY, req, outbound, proc, pythonOutput>>

\* fetch rejected: transport failure
FetchReject(i) ==
    /\ Alive
    /\ pc[i] = "await fetch"
    /\ upstream' = [upstream EXCEPT ![i].read = "failed"]
    /\ Catch(i)

\* Mutant of TextResolve: the return of line 84 is missing, the handler goes
\* on to response.json()
TextResolveNoReturn(i) ==
    /\ Alive
    /\ pc[i] = "await text"
    /\ upstream' = [upstream EXCEPT ![i].read = "ok"]
    /\ Log(i, "error", "API Error:")
    /\ Respond(i, upstream[i].status,
               [error |-> "Failed to fetch data from external API.",
                details |-> upstream[i].body])
    /\ pc' = [pc EXCEPT ![i] = "await json"]
    /\ UNCHANGED <<runMode, API_KEY, req, outbound, proc, pythonOutput>>

\* Mutant of TextResolve: the upstream status is replaced by 500
TextResolveStatus500(i) ==
    /\ Alive
    /\ pc[i] = "await text"
    /\ upstream' = [upstream EXCEPT ![i].read = "ok"]
    /\ Log(i, "error", "API Error:")
    /\ Respond(i, 500,
               [error |-> "Failed to fetch data from external API.",
                details |-> upstream[i].body])
    /\ pc' = [pc EXCEPT ![i] = "done"]
    /\ UNCHANGED <<runMode, API_KEY, req, outbound, proc, pythonOutput>>

\* response.text() resolved (lines 82-87)
TextResolve(i) ==
    /\ Alive
    /\ pc[i] = "await text"
    /\ upstream' = [upstream EXCEPT ![i].read = "ok"]
    /\ Log(i, "error", "API Error:")
    /\ Respond(i, upstream[i].status,
               [error |-> "Failed to fetch data from external API.",
                details |-> upstream[i].body])
    /\ pc' = [pc EXCEPT ![i] = "done"]
    /\ UNCHANGED <<runMode, API_KEY, req, outbound, proc, pythonOutput>>

\* response.text() rejected: the body could not be read
TextReject(i) ==
    /\ Alive
    /\ pc[i] = "await text"
    /\ upstream' = [upstream EXCEPT ![i].read = "failed"]
    /\ Catch(i)

\* response.json() resolved (lines 90-92): the body parsed as JSON
JsonResolve(i) ==
    /\ Alive
    /\ pc[i] = "await json"
    /\ JSONparse(upstream[i].body).ok
    /\ upstream' = [upstream EXCEPT ![i].read = "ok"]
    /\ Log(i, "log", "Successfully fetched data:")
    /\ Respond(i, 200, [json |-> JSONparse(upstream[i].body).val])
    /\ pc' = [pc EXCEPT ![i] = "done"]
    /\ UNCHANGED <<runMode, API_KEY, req, outbound, proc, pythonOutput>>

\* response.json() rejected: the body could not be read (transport), or it
\* was read and is not JSON
JsonReject(i, transport) ==
    /\ Alive
    /\ pc[i] = "await json"
    /\ transport \/ ~JSONparse(upstream[i].body).ok
    /\ upstream' = [upstream EXCEPT ![i].read = IF transport THEN "failed" ELSE "ok"]
    /\ Catch(i)

\* ------------------------------------------------------------------------
\* API routes
\* ------------------------------------------------------------------------

ApiV1(resource) == <<"api", "/", "v1", "/", resource>>

\* app.get('/api/top-coins')
TopCoins(i, r) ==
    /\ Alive
    /\ pc[i] = "idle"
    /\ r.route = "top-coins"
    /\ req' = [req EXCEPT ![i] = r]
    /\ handleApiRequest(i, URL(ApiV1("top")), r,
          IF runMode # LOCAL_MODE
          THEN <<LogEntry(i, "log", "API key from request query:")>>
          ELSE <<>>)
    /\ UNCHANGED <<runMode, API_KEY, proc, pythonOutput>>

\* a ?? b
Nullish(a, b) == IF a.t \in {"undefined", "null"} THEN b ELSE a

\* Mutant of MarketParams: ?? instead of || for the defaults of page and limit
MarketParamsNullish(r) ==
    <<<<"search", r.query["search"]>>,
      <<"sortBy", r.query["sortBy"]>>,
      <<"sortOrder", r.query["sortOrder"]>>,
      <<"priceFilter", r.query["priceFilter"]>>,
      <<"changeFilter", r.query["changeFilter"]>>,
      <<"page", Nullish(parseInt(r.query["page"]), Num(1))>>,
      <<"limit", Nullish(parseInt(r.query["limit"]), Num(12))>>>>

\* Mutant of MarketParams: page and limit are defaulted without parseInt
MarketParamsNoParse(r) ==
    <<<<"search", r.query["search"]>>,
      <<"sortBy", r.query["sortBy"]>>,
      <<"sortOrder", r.query["sortOrder"]>>,
      <<"priceFilter", r.query["priceFilter"]>>,
      <<"changeFilter", r.query["changeFilter"]>>,
      <<"page", Or(r.query["page"], Num(1))>>,
      <<"limit", Or(r.query["limit"], Num(12))>>>>

\* const params of app.get('/api/market-data') (lines 111-119)
MarketParams(r) ==
    <<<<"search", r.query["search"]>>,
      <<"sortBy", r.query["sortBy"]>>,
      <<"sortOrder", r.query["sortOrder"]>>,
      <<"priceFilter", r.query["priceFilter"]>>,
      <<"changeFilter", r.query["changeFilter"]>>,
      <<"page", Or(parseInt(r.query["page"]), Num(1))>>,
      <<"limit", Or(parseInt(r.query["limit"]), Num(12))>>>>

\* the url of app.get('/api/market-data') (lines 121-122)
MarketUrl(r) ==
    SetSearch(URL(ApiV1("market")),
              SearchParamsToString(URLSearchParams(MarketParams(r))))

\* app.get('/api/market-data')
MarketData(i, r) ==
    /\ Alive
    /\ pc[i] = "idle"
    /\ r.route = "market-data"
    /\ req' = [req EXCEPT ![i] = r]
    /\ handleApiRequest(i, MarketUrl(r), r, <<>>)
    /\ UNCHANGED <<runMode, API_KEY, proc, pythonOutput>>

\* the url of app.get('/api/coin-info') (lines 129-134)
CoinInfoUrl(r) ==
    SetSearch(URL(ApiV1("coin") \o <<"/">> \o JsToString(r.query["symbol"])),
              SearchParamsToString(URLSearchParams(
                  <<<<"timeframe", Or(r.query["timeframe"], Str(<<"1m">>))>>>>)))

\* app.get('/api/coin-info')
CoinInfo(i, r) ==
    /\ Alive
    /\ pc[i] = "idle"
    /\ r.route = "coin-info"
    /\ req' = [req EXCEPT ![i] = r]
    /\ handleApiRequest(i, CoinInfoUrl(r), r, <<>>)
    /\ UNCHANGED <<runMode, API_KEY, proc, pythonOutput>>

\* the url of app.get('/api/coin-holders') (lines 141-146)
CoinHoldersUrl(r) ==
    SetSearch(URL(ApiV1("holders") \o <<"/">> \o JsToString(r.query["symbol"])),
              SearchParamsToString(URLSearchParams(
                  <<<<"limit", Or(r.query["limit"], Num(50))>>>>)))

\* app.get('/api/coin-holders')
CoinHolders(i, r) ==
    /\ Alive
    /\ pc[i] = "idle"
    /\ r.route = "coin-holders"
    /\ req' = [req EXCEPT ![i] = r]
    /\ handleApiRequest(i, CoinHoldersUrl(r), r, <<>>)
    /\ UNCHANGED <<runMode, API_KEY, proc, pythonOutput>>

\* ------------------------------------------------------------------------
\* Render orchestrator: app.post('/api/graph')
\* ------------------------------------------------------------------------

\* The exit code of a subprocess killed by a signal
Null == [t |-> "null"]

\* Number of stderr chunks one rendering subprocess writes
MaxErrChunks == 1

\* Mutant of Graph: stdin is written but never ended
GraphNoEnd(i, r) ==
    /\ Alive
    /\ pc[i] = "idle"
    /\ r.route = "graph"
    /\ req' = [req EXCEPT ![i] = r]
    /\ Log(i, "log", "Request body:")
    /\ proc' = [proc EXCEPT ![i] =
          [spawned |-> TRUE, stdin |-> r.body, stdinEnded |-> FALSE,
           stdout |-> <<>>, stderr |-> <<>>, exited |-> FALSE,
           code |-> Undefined]]
    /\ pythonOutput' = [pythonOutput EXCEPT ![i] = <<>>]
    /\ pc' = [pc EXCEPT ![i] = "running"]
    /\ UNCHANGED <<runMode, API_KEY, outbound, upstream, sent>>

\* The handler body (lines 152-186): log, serialise, spawn, write and end
\* stdin, attach the stdout, close and stderr listeners.  req.body is held
\* as its JSON text, which is what JSON.stringify(req.body) writes.
Graph(i, r) ==
    /\ Alive
    /\ pc[i] = "idle"
    /\ r.route = "graph"
    /\ req' = [req EXCEPT ![i] = r]
    /\ Log(i, "log", "Request body:")
    /\ proc' = [proc EXCEPT ![i] =
          [spawned |-> TRUE, stdin |-> r.body, stdinEnded |-> TRUE,
           stdout |-> <<>>, stderr |-> <<>>, exited |-> FALSE,
           code |-> Undefined]]
    /\ pythonOutput' = [pythonOutput EXCEPT ![i] = <<>>]
    /\ pc' = [pc EXCEPT ![i] = "running"]
    /\ UNCHANGED <<runMode, API_KEY, outbound, upstream, sent>>

\* spawn('python') failed to start the subprocess (python missing, not
\* executable): on the next tick an 'error' event is emitted on
\* pythonProcess, which has no 'error' listener.
SpawnError(i) ==
    /\ Alive
    /\ pc[i] = "running"
    /\ proc[i].stdout = <<>>
    /\ proc[i].stderr = <<>>
    /\ pc' = [pc EXCEPT ![i] = "crashed"]
    /\ proc' = [proc EXCEPT ![i].spawned = FALSE]
    /\ UNCHANGED <<runMode, API_KEY, req, outbound, upstream, sent, log,
                   pythonOutput>>

\* data.toString() (line 165): a chunk is a Buffer of bytes and is decoded as
\* UTF-8 on its own.  A token is one byte: an ASCII token decodes to itself,
\* LeadByte followed by ContByte is the two-byte encoding of one character
\* (TwoByteChar), and a lead byte without its continuation or a continuation
\* byte without its lead decodes to the replacement character U+FFFD.
LeadByte == "0xC3"
ContByte == "0xA9"
TwoByteChar == "U+00E9"
Replacement == "U+FFFD"

RECURSIVE Utf8Decode(_)
Utf8Decode(bytes) ==
    IF bytes = <<>> THEN <<>>
    ELSE IF Head(bytes) = LeadByte
         THEN IF Len(bytes) >= 2 /\ bytes[2] = ContByte
              THEN <<TwoByteChar>> \o Utf8Decode(SubSeq(bytes, 3, Len(bytes)))
              ELSE <<Replacement>> \o Utf8Decode(Tail(bytes))
         ELSE IF Head(bytes) = ContByte
              THEN <<Replacement>> \o Utf8Decode(Tail(bytes))
              ELSE <<Head(bytes)>> \o Utf8Decode(Tail(bytes))

BufferToString(data) == Utf8Decode(data)

\* Mutant of StdoutData: one output buffer shared by all jobs, as if
\* pythonOutput were declared outside the handler
StdoutDataShared(i, data) ==
    /\ Alive
    /\ pc[i] = "running"
    /\ Len(proc[i].stdout) < MaxChunks
    /\ proc' = [proc EXCEPT ![i].stdout = Append(@, data)]
    /\ pythonOutput' = [j \in Ids |-> pythonOutput[j] \o BufferToString(data)]
    /\ UNCHANGED <<runMode, API_KEY, req, pc, outbound, upstream, sent, log>>

\* Mutant of StdoutData: pythonOutput = data instead of pythonOutput += data
StdoutDataOverwrite(i, data) ==
    /\ Alive
    /\ pc[i] = "running"
    /\ Len(proc[i].stdout) < MaxChunks
    /\ proc' = [proc EXCEPT ![i].stdout = Append(@, data)]
    /\ pythonOutput' = [pythonOutput EXCEPT ![i] = BufferToString(data)]
    /\ UNCHANGED <<runMode, API_KEY, req, pc, outbound, upstream, sent, log>>

\* pythonProcess.stdout.on('data') (lines 164-166)
StdoutData(i, data) ==
    /\ Alive
    /\ pc[i] = "running"
    /\ Len(proc[i].stdout) < MaxChunks
    /\ proc' = [proc EXCEPT ![i].stdout = Append(@, data)]
    /\ pythonOutput' = [pythonOutput EXCEPT ![i] = @ \o BufferToString(data)]
    /\ UNCHANGED <<runMode, API_KEY, req, pc, outbound, upstream, sent, log>>

\* Mutant of StderrData: the stderr chunk is appended to the output buffer too
StderrDataIntoOutput(i, data) ==
    /\ Alive
    /\ pc[i] = "running"
    /\ Len(proc[i].stderr) < MaxErrChunks
    /\ proc' = [proc EXCEPT ![i].stderr = Append(@, data)]
    /\ Log(i, "error", "stderr:")
    /\ pythonOutput' = [pythonOutput EXCEPT ![i] = @ \o BufferToString(data)]
    /\ UNCHANGED <<runMode, API_KEY, req, pc, outbound, upstream, sent>>

\* pythonProcess.stderr.on('data') (lines 184-186)
StderrData(i, data) ==
    /\ Alive
    /\ pc[i] = "running"
    /\ Len(proc[i].stderr) < MaxErrChunks
    /\ proc' = [proc EXCEPT ![i].stderr = Append(@, data)]
    /\ Log(i, "error", "stderr:")
    /\ UNCHANGED <<runMode, API_KEY, req, pc, outbound, upstream, sent,
                   pythonOutput>>

\* Mutant of Close: if (!code) instead of if (code === 0)
CloseFalsyCode(i, code) ==
    /\ Alive
    /\ pc[i] = "running"
    /\ IF ~Truthy(code)
       THEN IF JSONparse(pythonOutput[i]).ok
            THEN /\ Log(i, "log", "Returning graph data:")
                 /\ Respond(i, 200,
                       [success |-> TRUE,
                        graphData |-> JSONparse(pythonOutput[i]).val])
            ELSE /\ Log(i, "error", "Failed to parse JSON from Python script:")
                 /\ Respond(i, 500,
                       [success |-> FALSE,
                        error |-> "Failed to process graph data"])
       ELSE /\ Log(i, "error", "Python script exited with code")
            /\ Respond(i, 500,
                  [success |-> FALSE, error |-> "Graph generation failed"])
    /\ pc' = [pc EXCEPT ![i] = "exited"]
    /\ proc' = [proc EXCEPT ![i].exited = TRUE, ![i].code = code]
    /\ UNCHANGED <<runMode, API_KEY, req, outbound, upstream, pythonOutput>>

\* pythonProcess.on('close') (lines 168-182)
Close(i, code) ==
    /\ Alive
    /\ pc[i] = "running"
    /\ IF code = Num(0)
       THEN IF JSONparse(pythonOutput[i]).ok
            THEN /\ Log(i, "log", "Returning graph data:")
                 /\ Respond(i, 200,
                       [success |-> TRUE,
                        graphData |-> JSONparse(pythonOutput[i]).val])
            ELSE /\ Log(i, "error", "Failed to parse JSON from Python script:")
                 /\ Respond(i, 500,
                       [success |-> FALSE,
                        error |-> "Failed to process graph data"])
       ELSE /\ Log(i, "error", "Python script exited with code")
            /\ Respond(i, 500,
                  [success |-> FALSE, error |-> "Graph generation failed"])
    /\ pc' = [pc EXCEPT ![i] = "exited"]
    /\ proc' = [proc EXCEPT ![i].exited = TRUE, ![i].code = code]
    /\ UNCHANGED <<runMode, API_KEY, req, outbound, upstream, pythonOutput>>

\* ------------------------------------------------------------------------
\* Inputs and specifications
\* ------------------------------------------------------------------------

Request(route, given) == [route |-> route, query |-> Query(given), body |-> <<>>]

ApiKeys == {Undefined, Str(<<"k1">>), Str(<<"k2">>)}

\* Spec: several requests in flight at once, few inputs each
TopReqs == {Request("top-coins", [apikey |-> k]) : k \in ApiKeys}
TopReqsPlain == {Request("top-coins", [apikey |-> Undefined])}
MarketReqs == {Request("market-data", [search |-> Str(<<"doge">>)])}
CoinInfoReqs == {Request("coin-info", [symbol |-> Str(<<"BTC">>)])}
CoinHoldersReqs == {Request("coin-holders", [symbol |-> Str(<<"BTC">>)])}
GraphReqs ==
    {[route |-> "graph", query |-> Query(<<>>), body |-> <<"{", "}">>]}
Statuses == {200, 404}
Bodies == {<<"[", "1", "]">>, <<"not found">>}
Chunks == {<<"1">>}
ErrChunks == {<<"Traceback">>}
ExitCodes == {Num(0), Num(1)}

Next ==
    \E i \in Ids :
        \/ \E r \in TopReqsPlain : TopCoins(i, r)
        \/ \E r \in MarketReqs : MarketData(i, r)
        \/ \E r \in CoinInfoReqs : CoinInfo(i, r)
        \/ \E r \in CoinHoldersReqs : CoinHolders(i, r)
        \/ \E s \in Statuses : FetchResolve(i, s, <<"[", "1", "]">>)
        \/ FetchReject(i)
        \/ TextResolve(i)
        \/ JsonResolve(i)
        \/ \E r \in GraphReqs : Graph(i, r)
        \/ \E c \in Chunks : StdoutData(i, c)
        \/ \E c \in ErrChunks : StderrData(i, c)
        \/ \E code \in ExitCodes : Close(i, code)
        \/ SpawnError(i)

Spec == Init /\ [][Next]_vars
\* SpecProxy: several proxy requests in flight at once, every apikey on
\* top-coins and market-data
MarketReqsProxy ==
    {Request("market-data", [apikey |-> k]) : k \in {Undefined, Str(<<"k1">>)}}

NextProxy ==
    \E i \in Ids :
        \/ \E r \in TopReqs : TopCoins(i, r)
        \/ \E r \in MarketReqsProxy : MarketData(i, r)
        \/ \E r \in CoinInfoReqs : CoinInfo(i, r)
        \/ \E r \in CoinHoldersReqs : CoinHolders(i, r)
        \/ \E s \in Statuses : FetchResolve(i, s, <<"[", "1", "]">>)
        \/ FetchReject(i)
        \/ TextResolve(i)
        \/ TextReject(i)
        \/ JsonResolve(i)
        \/ JsonReject(i, TRUE)

SpecProxy == Init /\ [][NextProxy]_vars

\* SpecOne: one request handled from its arrival to its response, inputs
\* drawn from wide sets
QA == "\"a\""
QB == "\"b\""

Presence(v) == {Undefined, v}

PageValues ==
    {Undefined, Str(<<>>), Str(<<"0">>), Str(<<"3">>), Str(<<"1", "2">>),
     Str(<<"-", "2">>), Str(<<"abc">>), Str(<<"7", "abc">>), Str(<<" ", "4">>),
     Str(<<"0", "x", "1", "0">>), Str(<<"0", "5">>), Str(<<"+", "6">>)}

LimitValues ==
    {Undefined, Str(<<>>), Str(<<"0">>), Str(<<"5">>), Str(<<"1", "0", "0">>),
     Str(<<"-", "1">>), Str(<<"many">>)}

MarketReqsOne ==
    {Request("market-data",
             [search |-> s, sortBy |-> sb, sortOrder |-> so, priceFilter |-> pf,
              changeFilter |-> cf, page |-> p, limit |-> l]) :
        s \in Presence(Str(<<"doge", " ", "&", "cat">>)),
        sb \in Presence(Str(<<"marketCap">>)),
        so \in Presence(Str(<<"desc">>)),
        pf \in Presence(Str(<<"all">>)),
        cf \in Presence(Str(<<"undefined">>)),
        p \in Presence(Str(<<"3">>)),
        l \in Presence(Str(<<"5">>))}
    \cup
    {Request("market-data", [page |-> p, limit |-> l]) :
        p \in PageValues, l \in LimitValues}

Symbols ==
    {Undefined, Str(<<>>), Str(<<"BTC">>), Str(<<".", ".", "/", "top">>),
     Str(<<"BTC", "?", "limit", "=", "1">>), Str(<<"BTC", "#", "x">>),
     Str(<<"BTC", "/", "ETH">>), Str(<<"my", " ", "coin">>), Str(<<".">>)}

CoinInfoReqsOne ==
    {Request("coin-info", [symbol |-> s, timeframe |-> tf]) :
        s \in Symbols, tf \in {Undefined, Str(<<>>), Str(<<"1h">>)}}

CoinHoldersReqsOne ==
    {Request("coin-holders", [symbol |-> s, limit |-> l]) :
        s \in Symbols, l \in {Undefined, Str(<<>>), Str(<<"0">>), Str(<<"5">>)}}

GraphReqsOne ==
    {[route |-> "graph", query |-> Query(<<>>), body |-> b] :
        b \in {<<"{", "}">>, <<"{", QA, ":", "1", "}">>}}

StatusesOne == {200, 201, 204, 299, 300, 304, 400, 401, 403, 404, 429, 500, 503}

BodiesOne ==
    {<<>>, <<"not found">>, <<"[", "1", "]">>, <<"{", QA, ":", "1", "}">>,
     <<"[", "1">>, <<" ", "{", QA, ":", " ", "1", ",", QA, ":", "2", "}">>}

ChunksOne ==
    {<<"[">>, <<"1">>, <<"]">>, <<"oops">>, <<"{", QA, ":", "1", "}">>,
     <<LeadByte>>, <<ContByte>>}

ExitCodesOne == {Num(0), Num(1), Num(2), Num(255), Null}

NextOne ==
    \/ \E r \in TopReqs : TopCoins(1, r)
    \/ \E r \in MarketReqsOne : MarketData(1, r)
    \/ \E r \in CoinInfoReqsOne : CoinInfo(1, r)
    \/ \E r \in CoinHoldersReqsOne : CoinHolders(1, r)
    \/ \E s \in StatusesOne, b \in BodiesOne : FetchResolve(1, s, b)
    \/ FetchReject(1)
    \/ TextResolve(1)
    \/ TextReject(1)
    \/ JsonResolve(1)
    \/ \E transport \in BOOLEAN : JsonReject(1, transport)
    \/ \E r \in GraphReqsOne : Graph(1, r)
    \/ \E c \in ChunksOne : StdoutData(1, c)
    \/ \E c \in ErrChunks : StderrData(1, c)
    \/ \E code \in ExitCodesOne : Close(1, code)
    \/ SpawnError(1)

SpecOne == Init /\ [][NextOne]_vars

\* ------------------------------------------------------------------------
\* Properties
\* ------------------------------------------------------------------------

ProxyRoutes == {"top-coins", "market-data", "coin-info", "coin-holders"}
IsProxy(i) == req[i].route \in ProxyRoutes
IsGraph(i) == req[i].route = "graph"

GenericError == [status |-> 500, body |-> [error |-> "Internal server error."]]

MirroredError(i) ==
    [status |-> upstream[i].status,
     body |-> [error |-> "Failed to fetch data from external API.",
               details |-> upstream[i].body]]

\* The response is the whole parsed upstream JSON of request i
CompletePayload(i, resp) ==
    /\ Ok(upstream[i].status)
    /\ upstream[i].read = "ok"
    /\ JSONparse(upstream[i].body).ok
    /\ resp = [status |-> 200, body |-> [json |-> JSONparse(upstream[i].body).val]]

\* The response is one of the two structured error envelopes of request i
ErrorEnvelope(i, resp) ==
    \/ resp = GenericError
    \/ ~Ok(upstream[i].status) /\ upstream[i].read = "ok" /\ resp = MirroredError(i)

\* C1: a proxy request sends nothing before its upstream call has ended, and
\* then exactly one response, which is either the complete parsed upstream
\* JSON or one structured error envelope; never two, never a partial one.
C1_ExactlyOneResponse ==
    \A i \in Ids :
        IsProxy(i) =>
            /\ pc[i] # "done" => sent[i] = <<>>
            /\ pc[i] = "done" =>
                /\ Len(sent[i]) = 1
                /\ CompletePayload(i, sent[i][1]) \/ ErrorEnvelope(i, sent[i][1])

C1_Witness ==
    \E i \in Ids :
        /\ req[i].route = "coin-info"
        /\ pc[i] = "done"
        /\ upstream[i].body = <<" ", "{", QA, ":", " ", "1", ",", QA, ":", "2", "}">>
        /\ sent[i] = <<[status |-> 200, body |-> [json |-> <<"{", QA, ":", "2", "}">>]]>>

\* C2: for every non-success upstream status s and body text b that was
\* read, the response has status s and the body
\* {error: "Failed to fetch data from external API.", details: b}.
C2_MirroredStatusAndBody ==
    \A i \in Ids :
        (IsProxy(i) /\ pc[i] = "done" /\ ~Ok(upstream[i].status)
            /\ upstream[i].read = "ok") =>
            sent[i] = <<[status |-> upstream[i].status,
                         body |-> [error |-> "Failed to fetch data from external API.",
                                   details |-> upstream[i].body]]>>

C2_Witness ==
    \E i \in Ids :
        /\ pc[i] = "done"
        /\ upstream[i] = [status |-> 404, body |-> <<"not found">>, read |-> "ok"]
        /\ sent[i] = <<[status |-> 404,
                        body |-> [error |-> "Failed to fetch data from external API.",
                                  details |-> <<"not found">>]]>>

\* The concatenation of a sequence of chunks
RECURSIVE Concat(_)
Concat(chunks) ==
    IF chunks = <<>> THEN <<>> ELSE Head(chunks) \o Concat(Tail(chunks))

\* C3: when the rendering subprocess exits with code 0, the response is
\* {success: true, graphData: v} with status 200 if the accumulated output
\* parses as the JSON value v, and HTTP 500 {success: false, error} without
\* graphData if it does not.
C3_ExitZero ==
    \A i \in Ids :
        (IsGraph(i) /\ pc[i] = "exited" /\ proc[i].code = Num(0)) =>
            LET out == JSONparse(Concat(proc[i].stdout))
            IN  /\ Len(sent[i]) = 1
                /\ out.ok =>
                      sent[i][1] = [status |-> 200,
                                    body |-> [success |-> TRUE, graphData |-> out.val]]
                /\ ~out.ok =>
                      /\ sent[i][1].status = 500
                      /\ DOMAIN sent[i][1].body = {"success", "error"}
                      /\ sent[i][1].body.success = FALSE

C3_Witness ==
    \E i \in Ids :
        /\ pc[i] = "exited"
        /\ proc[i].code = Num(0)
        /\ proc[i].stdout = <<<<"[">>, <<"]">>>>
        /\ sent[i] = <<[status |-> 200,
                        body |-> [success |-> TRUE, graphData |-> <<"[", "]">>]]>>

\* C4: when the rendering subprocess ends with any exit code other than 0,
\* or with no numeric code, the response is HTTP 500
\* {success: false, error: "Graph generation failed"}: nothing of the
\* accumulated output is in it, even when that output is valid JSON.
C4_ExitNonZero ==
    \A i \in Ids :
        (IsGraph(i) /\ pc[i] = "exited" /\ proc[i].code # Num(0)) =>
            sent[i] = <<[status |-> 500,
                         body |-> [success |-> FALSE,
                                   error |-> "Graph generation failed"]]>>

C4_Witness ==
    \E i \in Ids :
        /\ pc[i] = "exited"
        /\ proc[i].code = Null
        /\ JSONparse(Concat(proc[i].stdout)).ok
        /\ sent[i] = <<[status |-> 500,
                        body |-> [success |-> FALSE,
                                  error |-> "Graph generation failed"]]>>

\* Two requests that differ at most in their apikey query parameter
SameButApikey(r1, r2) ==
    /\ r1.route = r2.route
    /\ r1.body = r2.body
    /\ \A n \in QueryNames \ {"apikey"} : r1.query[n] = r2.query[n]

\* C5: in local mode the Authorization header of every outbound call is
\* built from the process-configured secret only, and two requests that
\* differ only in their apikey query parameter have identical outbound
\* headers.
C5_LocalHeadersIgnoreApikey ==
    runMode = LOCAL_MODE =>
        \A i, j \in Ids :
            (outbound[i] # <<>> /\ outbound[j] # <<>>) =>
                /\ outbound[i][1].headers["Authorization"]
                      = <<"Bearer", " ">> \o JsToString(API_KEY)
                /\ SameButApikey(req[i], req[j]) =>
                      outbound[i][1].headers = outbound[j][1].headers

C5_Witness ==
    /\ runMode = LOCAL_MODE
    /\ API_KEY = Str(<<"secret">>)
    /\ \E i, j \in Ids :
          /\ outbound[i] # <<>> /\ outbound[j] # <<>>
          /\ SameButApikey(req[i], req[j])
          /\ req[i].query["apikey"] = Undefined
          /\ req[j].query["apikey"] = Str(<<"k2">>)
          /\ outbound[j][1].headers["Authorization"] = <<"Bearer", " ", "secret">>

\* C6: in deployed mode a proxy request without apikey is not rejected
\* locally: its outbound call is issued once, nothing is sent before the
\* upstream has answered, and a non-success upstream status and body come
\* back as the mirrored-status error envelope.
C6_MissingApikeyReachesUpstream ==
    \A i \in Ids :
        (IsProxy(i) /\ runMode # LOCAL_MODE /\ req[i].query["apikey"] = Undefined) =>
            /\ Len(outbound[i]) = 1
            /\ pc[i] = "await fetch" => sent[i] = <<>>
            /\ (pc[i] = "done" /\ ~Ok(upstream[i].status) /\ upstream[i].read = "ok") =>
                  sent[i] = <<MirroredError(i)>>

C6_Witness ==
    \E i \in Ids :
        /\ runMode # LOCAL_MODE
        /\ IsProxy(i)
        /\ req[i].query["apikey"] = Undefined
        /\ outbound[i][1].headers["Authorization"] = <<"Bearer", " ", "undefined">>
        /\ upstream[i] = [status |-> 401, body |-> <<"not found">>, read |-> "ok"]
        /\ pc[i] = "done"
        /\ sent[i][1].status = 401

\* What the upstream reads from a query string: the pieces between "&", each
\* split at its first "=", with "+" and %XX escapes decoded.
RECURSIVE FormDecode(_)
FormDecode(s) ==
    IF s = <<>> THEN <<>>
    ELSE IF Head(s) = "+" THEN <<" ">> \o FormDecode(Tail(s))
    ELSE IF Head(s) = "%" /\ Len(s) >= 3
         THEN LET code == <<s[2], s[3]>>
                  c == CASE code = <<"2", "B">> -> "+"
                         [] code = <<"2", "6">> -> "&"
                         [] code = <<"3", "D">> -> "="
                         [] code = <<"2", "5">> -> "%"
                         [] code = <<"3", "F">> -> "?"
                         [] code = <<"2", "3">> -> "#"
                         [] code = <<"2", "F">> -> "/"
                         [] code = <<"5", "C">> -> "\\"
                         [] code = <<"2", "C">> -> ","
                         [] code = <<"2", "0">> -> " "
                         [] OTHER -> "?"
              IN  <<c>> \o FormDecode(SubSeq(s, 4, Len(s)))
    ELSE <<Head(s)>> \o FormDecode(Tail(s))

RECURSIVE SplitOn(_, _)
SplitOn(s, sep) ==
    LET k == FirstOf(s, {sep}, 1)
    IN  IF k > Len(s) THEN <<s>>
        ELSE <<SubSeq(s, 1, k - 1)>> \o SplitOn(SubSeq(s, k + 1, Len(s)), sep)

ParseQueryString(s) ==
    IF s = <<>> THEN <<>>
    ELSE LET pieces == SplitOn(s, "&")
         IN  [k \in 1..Len(pieces) |->
                LET e == FirstOf(pieces[k], {"="}, 1)
                IN  <<FormDecode(SubSeq(pieces[k], 1, e - 1)),
                      FormDecode(SubSeq(pieces[k], e + 1, Len(pieces[k])))>>]

\* The names, and the values under one name, of a parsed query string
QueryNameSet(pairs) == {pairs[k][1] : k \in 1..Len(pairs)}
QueryValues(pairs, name) ==
    {pairs[k][2] : k \in {j \in 1..Len(pairs) : pairs[j][1] = <<name>>}}

MarketFilters == {"search", "sortBy", "sortOrder", "priceFilter", "changeFilter"}

\* C7: the market-data upstream query string holds exactly the supplied
\* ones of search, sortBy, sortOrder, priceFilter, changeFilter, plus page
\* and limit, and no entry for an unsupplied one.
C7_UnsuppliedOmitted ==
    \A i \in Ids :
        (req[i].route = "market-data" /\ outbound[i] # <<>>) =>
            QueryNameSet(ParseQueryString(outbound[i][1].url.search))
                = {<<n>> : n \in {m \in MarketFilters : req[i].query[m] # Undefined}}
                    \cup {<<"page">>, <<"limit">>}

\* A decimal numeral of a positive integer: digits only, no leading zero
IsPositiveInteger(v) ==
    /\ v.t = "string"
    /\ v.s # <<>>
    /\ \A k \in 1..Len(v.s) : IsDigit(v.s[k], 10)
    /\ v.s[1] # "0"

LowerName(n) ==
    CASE n = "Authorization" -> "authorization"
      [] n = "Content-Type" -> "content-type"
      [] n = "User-Agent" -> "user-agent"
      [] n = "Accept" -> "accept"
      [] n = "Accept-Language" -> "accept-language"
      [] n = "Accept-Encoding" -> "accept-encoding"
      [] n = "Connection" -> "connection"
      [] n = "Pragma" -> "pragma"
      [] n = "Cache-Control" -> "cache-control"
      [] OTHER -> n

HeaderNames(h) == {LowerName(n) : n \in DOMAIN h}

\* The token of a request: the secret in local mode, its apikey otherwise
TokenOf(r) == IF runMode = LOCAL_MODE THEN API_KEY ELSE r.query["apikey"]

\* The values the source gives the browser-emulation headers
FixedValue(n) ==
    CASE n = "User-Agent" -> <<"Mozilla/5.0 (Windows NT 10.0; Win64; x64) AppleWebKit/537.36 (KHTML, like Gecko) Chrome/58.0.3029.110 Safari/537.3">>
      [] n = "Accept" -> <<"application/json, text/plain, */*">>
      [] n = "Accept-Language" -> <<"en-US,en;q=0.9">>
      [] n = "Accept-Encoding" -> <<"gzip, deflate, br">>
      [] n = "Connection" -> <<"keep-alive">>
      [] n = "Pragma" -> <<"no-cache">>
      [] n = "Cache-Control" -> <<"no-cache">>

\* The headers of an outbound call are those of the given name set: bearer
\* token, JSON content type, and a fixed value for every other name
HeadersAre(i, names) ==
    LET h == outbound[i][1].headers
    IN  /\ HeaderNames(h) = names
        /\ h["Authorization"] = <<"Bearer", " ">> \o JsToString(TokenOf(req[i]))
        /\ h["Content-Type"] = <<"application/json">>
        /\ \A n \in DOMAIN h \ {"Authorization", "Content-Type"} : h[n] = FixedValue(n)

\* C9 as stated: the outbound headers are exactly Authorization and
\* Content-Type in local mode, and in deployed mode those two plus
\* user-agent, accept, accept-language, accept-encoding, connection and
\* cache-control, and no other header.
C9_HeaderSetAsStated ==
    \A i \in Ids :
        outbound[i] # <<>> =>
            IF runMode = LOCAL_MODE
            THEN HeadersAre(i, {"authorization", "content-type"})
            ELSE HeadersAre(i, {"authorization", "content-type", "user-agent",
                                "accept", "accept-language", "accept-encoding",
                                "connection", "cache-control"})

\* C9 amended: as stated, with pragma among the fixed headers of deployed
\* mode.
C9_HeaderSet ==
    \A i \in Ids :
        outbound[i] # <<>> =>
            IF runMode = LOCAL_MODE
            THEN HeadersAre(i, {"authorization", "content-type"})
            ELSE HeadersAre(i, {"authorization", "content-type", "user-agent",
                                "accept", "accept-language", "accept-encoding",
                                "connection", "pragma", "cache-control"})

C9_Witness ==
    \E i \in Ids :
        /\ runMode # LOCAL_MODE
        /\ req[i].query["apikey"] = Str(<<"k1">>)
        /\ outbound[i] # <<>>
        /\ outbound[i][1].headers["Authorization"] = <<"Bearer", " ", "k1">>
        /\ "Pragma" \in DOMAIN outbound[i][1].headers

\* C10: when the outbound call fails at transport level, the upstream body
\* cannot be read, or the success body is not JSON, the response is HTTP 500
\* with the generic envelope {error: "Internal server error."} and nothing
\* else.
C10_GenericInternalError ==
    \A i \in Ids :
        (IsProxy(i) /\ pc[i] = "done"
            /\ \/ upstream[i].read = "failed"
               \/ /\ Ok(upstream[i].status)
                  /\ upstream[i].read = "ok"
                  /\ ~JSONparse(upstream[i].body).ok) =>
            sent[i] = <<[status |-> 500, body |-> [error |-> "Internal server error."]]>>

C10_Witness ==
    \E i \in Ids :
        /\ IsProxy(i)
        /\ pc[i] = "done"
        /\ upstream[i] = [status |-> 200, body |-> <<"[", "1">>, read |-> "ok"]
        /\ sent[i] = <<[status |-> 500, body |-> [error |-> "Internal server error."]]>>

\* C11: each proxy request causes exactly one outbound call, a GET, whatever
\* its outcome: after a non-success status, a transport failure or a body
\* that cannot be read or parsed there is still exactly one call, and a
\* request of another kind causes none.
C11_OneOutboundCall ==
    \A i \in Ids :
        /\ IsProxy(i) =>
              /\ Len(outbound[i]) = 1
              /\ outbound[i][1].method = "GET"
        /\ ~IsProxy(i) => outbound[i] = <<>>

C11_Witness ==
    \E i \in Ids :
        /\ IsProxy(i)
        /\ pc[i] = "done"
        /\ upstream[i].read = "failed"
        /\ sent[i] = <<GenericError>>
        /\ Len(outbound[i]) = 1

\* C12: every render job answers exactly once at the end of its subprocess.
\* Whichever way the subprocess stopped (exit code 0, another exit code, a
\* signal, a failure to start) the request has exactly one response and the
\* server is still running to serve other requests; while the subprocess has
\* not stopped the request has no response.
Stopped(i) == pc[i] \in {"exited", "crashed"}

C12_EveryStopAnswered ==
    \A i \in Ids :
        IsGraph(i) =>
            /\ Stopped(i) => (Len(sent[i]) = 1 /\ Alive)
            /\ ~Stopped(i) => sent[i] = <<>>

\* C13: whatever the symbol, the coin-info call goes to a path that starts
\* with /api/v1/coin/ and the coin-holders call to one that starts with
\* /api/v1/holders/, and the query string holds exactly the handler's own
\* parameter: timeframe ("1m" when absent) for coin-info, limit (50 when
\* absent) for coin-holders.  The symbol alters neither the resource prefix
\* nor the query string.
OwnParameter(i, name, default) ==
    LET pairs == ParseQueryString(outbound[i][1].url.search)
        given == req[i].query[name]
    IN  /\ Len(pairs) = 1
        /\ pairs[1][1] = <<name>>
        /\ given = Undefined => pairs[1][2] = default
        /\ (given # Undefined /\ given # Str(<<>>)) => pairs[1][2] = given.s

ResourcePrefix(i, resource) ==
    LET path == outbound[i][1].url.path
    IN  /\ Len(path) >= 4
        /\ SubSeq(path, 1, 3) = <<<<"api">>, <<"v1">>, <<resource>>>>

C13_SymbolKeepsPrefixAndQuery ==
    \A i \in Ids :
        /\ (req[i].route = "coin-info" /\ outbound[i] # <<>>) =>
              /\ ResourcePrefix(i, "coin")
              /\ OwnParameter(i, "timeframe", <<"1m">>)
        /\ (req[i].route = "coin-holders" /\ outbound[i] # <<>>) =>
              /\ ResourcePrefix(i, "holders")
              /\ OwnParameter(i, "limit", <<"5", "0">>)

\* C14: a render job goes through spawned, input sent, collecting, exited in
\* that order.  Whenever an output chunk has been accumulated, the whole
\* serialized request body has been written to the subprocess input and the
\* input has been ended; a response exists only once the termination event
\* has been handled, never while the subprocess is running.
C14_InputBeforeOutputBeforeResponse ==
    \A i \in Ids :
        IsGraph(i) =>
            /\ (proc[i].stdout # <<>> \/ pythonOutput[i] # <<>>) =>
                  /\ proc[i].stdin = req[i].body
                  /\ proc[i].stdinEnded
            /\ sent[i] # <<>> => (pc[i] = "exited" /\ proc[i].exited)
            /\ pc[i] = "running" => (sent[i] = <<>> /\ ~proc[i].exited)
            /\ proc[i].exited => proc[i].stdinEnded

C14_Witness ==
    \E i \in Ids :
        /\ IsGraph(i)
        /\ pc[i] = "exited"
        /\ proc[i].stdin = <<"{", QA, ":", "1", "}">>
        /\ proc[i].stdinEnded
        /\ Len(proc[i].stdout) = 2
        /\ Len(sent[i]) = 1

\* C15: when the termination event is handled, the output buffer is the
\* text of all the bytes the subprocess wrote to its output stream, chunk
\* after chunk in arrival order: nothing dropped, duplicated or reordered.
C15_BufferIsWholeOutput ==
    \A i \in Ids :
        (IsGraph(i) /\ pc[i] = "exited") =>
            pythonOutput[i] = Utf8Decode(Concat(proc[i].stdout))

\* C16: what the subprocess writes to its error stream has no effect on the
\* output buffer or on the response.  Two render jobs that received the same
\* output chunks have the same buffer, and if they also ended with the same
\* exit code they have the same response, whatever each wrote to stderr.
C16_StderrHasNoEffect ==
    \A i, j \in Ids :
        (IsGraph(i) /\ IsGraph(j) /\ proc[i].spawned /\ proc[j].spawned
            /\ proc[i].stdout = proc[j].stdout) =>
            /\ pythonOutput[i] = pythonOutput[j]
            /\ (pc[i] = "exited" /\ pc[j] = "exited"
                    /\ proc[i].code = proc[j].code) => sent[i] = sent[j]

C16_Witness ==
    \E i, j \in Ids :
        /\ pc[i] = "exited" /\ pc[j] = "exited"
        /\ proc[i].stdout = <<<<"1">>>> /\ proc[j].stdout = <<<<"1">>>>
        /\ proc[i].code = Num(0) /\ proc[j].code = Num(0)
        /\ proc[i].stderr = <<>>
        /\ proc[j].stderr = <<<<"Traceback">>>>
        /\ sent[i] = sent[j]
        /\ Len(sent[i]) = 1

\* C17: with several requests in flight, in any interleaving, each response
\* is a function of its own request's upstream result or of its own
\* subprocess' output and exit code; the output buffer of a job holds the
\* chunks of its own subprocess and no other; and the deployment mode and the
\* local secret are never written after startup.
OwnText(i) ==
    Concat([k \in 1..Len(proc[i].stdout) |-> BufferToString(proc[i].stdout[k])])

OwnProxyResponse(i) ==
    IF upstream[i].read = "failed" THEN GenericError
    ELSE IF ~Ok(upstream[i].status) THEN MirroredError(i)
    ELSE IF JSONparse(upstream[i].body).ok
         THEN [status |-> 200, body |-> [json |-> JSONparse(upstream[i].body).val]]
         ELSE GenericError

OwnGraphResponse(i) ==
    IF proc[i].code # Num(0)
    THEN [status |-> 500,
          body |-> [success |-> FALSE, error |-> "Graph generation failed"]]
    ELSE IF JSONparse(OwnText(i)).ok
         THEN [status |-> 200,
               body |-> [success |-> TRUE, graphData |-> JSONparse(OwnText(i)).val]]
         ELSE [status |-> 500,
               body |-> [success |-> FALSE, error |-> "Failed to process graph data"]]

C17_Isolated ==
    \A i \in Ids :
        /\ (IsProxy(i) /\ pc[i] = "done") => sent[i] = <<OwnProxyResponse(i)>>
        /\ (IsGraph(i) /\ pc[i] = "exited") => sent[i] = <<OwnGraphResponse(i)>>
        /\ pc[i] \notin {"done", "exited"} => sent[i] = <<>>
        /\ (IsGraph(i) /\ proc[i].spawned) => pythonOutput[i] = OwnText(i)
        /\ ~IsGraph(i) => pythonOutput[i] = <<>>

C17_Isolation ==
    /\ []C17_Isolated
    /\ [][runMode' = runMode /\ API_KEY' = API_KEY]_vars

C17_Witness ==
    \E i, j \in Ids :
        /\ IsGraph(i) /\ pc[i] = "exited"
        /\ proc[i].stdout = <<<<"1">>>>
        /\ pythonOutput[i] = <<"1">>
        /\ sent[i] = <<[status |-> 200,
                        body |-> [success |-> TRUE, graphData |-> <<"1">>]]>>
        /\ IsGraph(j) /\ pc[j] = "exited"
        /\ proc[j].stdout = <<>>
        /\ proc[j].code = Num(0)
        /\ pythonOutput[j] = <<>>
        /\ sent[j] = <<[status |-> 500,
                        body |-> [success |-> FALSE,
                                  error |-> "Failed to process graph data"]]>>

\* C18: on every failure path (upstream non-success status, exception in the
\* proxy handler, non-zero exit, unparsable subprocess output) the failure is
\* written to the error log before the error response is sent: every error
\* response has a failure entry that was logged when fewer responses had
\* been sent.
FailureLogs ==
    {"API Error:", "Error fetching data:",
     "Failed to parse JSON from Python script:", "Python script exited with code"}

IsErrorResponse(resp) == "error" \in DOMAIN resp.body

C18_LoggedBeforeErrorResponse ==
    \A i \in Ids :
        \A k \in 1..Len(sent[i]) :
            IsErrorResponse(sent[i][k]) =>
                \E n \in 1..Len(log[i]) :
                    /\ log[i][n].level = "error"
                    /\ log[i][n].msg \in FailureLogs
                    /\ log[i][n].sent < k

C18_Witness ==
    \E i \in Ids :
        /\ IsGraph(i)
        /\ pc[i] = "exited"
        /\ proc[i].code = Num(0)
        /\ pythonOutput[i] = <<"oops">>
        /\ sent[i] = <<[status |-> 500,
                        body |-> [success |-> FALSE,
                                  error |-> "Failed to process graph data"]]>>
        /\ log[i][Len(log[i])] =
              [level |-> "error", msg |-> "Failed to parse JSON from Python script:",
               sent |-> 0]

\* C19: repeating an identical proxy GET produces the same outbound call
\* (URL, method, headers) every time, whatever was handled in between and
\* however it ended: every proxy request issues its call, and two identical
\* requests have identical calls.
C19_SameRequestSameCall ==
    \A i, j \in Ids :
        (IsProxy(i) /\ IsProxy(j) /\ req[i] = req[j]) =>
            /\ Len(outbound[i]) = 1
            /\ outbound[i] = outbound[j]

C19_Witness ==
    \E i, j \in Ids :
        /\ i # j
        /\ IsProxy(i)
        /\ req[i] = req[j]
        /\ req[i].query["apikey"] = Str(<<"k1">>)
        /\ pc[i] = "done" /\ pc[j] = "done"
        /\ sent[i][1].status = 200
        /\ sent[j][1].status = 404
        /\ outbound[i] = outbound[j]

\* Texts of integers, for C20.  An integer text is an optional "-" and
\* decimal digits; it is non-zero and canonical when its first digit is 1-9.
Digits(s) == s # <<>> /\ \A k \in 1..Len(s) : IsDigit(s[k], 10)
Unsigned(s) == IF s # <<>> /\ s[1] = "-" THEN Tail(s) ELSE s
IsIntegerText(s) == Digits(Unsigned(s))
IsZeroText(s) == IsIntegerText(s) /\ \A k \in 1..Len(Unsigned(s)) : Unsigned(s)[k] = "0"
IsNonZeroIntegerText(s) == IsIntegerText(s) /\ Unsigned(s)[1] # "0"

\* The longest prefix of s that is a non-zero canonical integer text, or <<>>
IntegerPrefix(s) ==
    LET ks == {k \in 1..Len(s) : IsNonZeroIntegerText(SubSeq(s, 1, k))}
    IN  IF ks = {} THEN <<>>
        ELSE SubSeq(s, 1, CHOOSE k \in ks : \A m \in ks : m <= k)

\* s starts, after white space and a sign, with a decimal digit
RECURSIVE StartsWithNumeral(_)
StartsWithNumeral(s) ==
    /\ s # <<>>
    /\ IF s[1] = " " THEN StartsWithNumeral(Tail(s))
       ELSE IF s[1] \in {"+", "-"} THEN Len(s) >= 2 /\ IsDigit(s[2], 10)
       ELSE IsDigit(s[1], 10)

Replaced(given) ==
    \/ given = Undefined
    \/ given = Str(<<>>)
    \/ given.t = "string" /\ IsZeroText(given.s)

\* C20 as stated: the forwarded page and limit are non-zero integers; an
\* inbound value that is absent, empty, 0 or not a number is replaced by the
\* default, and a non-zero integer is forwarded unchanged.
ForwardedAsStated(given, forwarded, default) ==
    /\ \A f \in forwarded : IsNonZeroIntegerText(f)
    /\ Replaced(given) => forwarded = {default}
    /\ (given.t = "string" /\ given.s # <<>> /\ ~IsIntegerText(given.s)
            /\ IntegerPrefix(given.s) # <<>>) => forwarded = {default}
    /\ (given.t = "string" /\ IsNonZeroIntegerText(given.s)) => forwarded = {given.s}

Forwarded(given, forwarded, default) ==
    /\ Cardinality(forwarded) = 1
    /\ \A f \in forwarded : IsNonZeroIntegerText(f)
    /\ Replaced(given) => forwarded = {default}
    /\ (given.t = "string" /\ ~StartsWithNumeral(given.s)) => forwarded = {default}
    /\ (given.t = "string" /\ IntegerPrefix(given.s) # <<>>) =>
          forwarded = {IntegerPrefix(given.s)}

====
